---- MODULE Spec2Model ----
(***************************************************************************)
(* The streaming chat session of AutoGLM-GUI: sendMessageStream (api.ts)   *)
(* reading a text/event-stream response, and the callbacks DevicePanel     *)
(* passes to it (handleSend), including the 50 ms thinking-text coalescer; *)
(* the panel's handlers around its sessions (handleAbortChat, handleReset) *)
(* and the paged record list of the history page (HistoryComponent).       *)
(*                                                                         *)
(* JavaScript strings that the code slices, splits, trims or concatenates  *)
(* are sequences of one-character strings.  Messages that are only passed  *)
(* along are TLA+ strings.                                                 *)
(***************************************************************************)
EXTENDS Naturals, Integers, Sequences, FiniteSets, TLC

----------------------------------------------------------------------------
(* Bounds of the explored input space.                                     *)

\* longest response body, counted in frames (see Units)
MaxFrames == 3
\* largest partial read the transport delivers (it may also deliver all)
MaxRead == 2
\* longest response body, counted in lines, when reads may end anywhere
MaxLines == 3
\* how many times close() is called on one handle
MaxCloses == 2
\* how many times handleSend starts a session in one panel
MaxSessions == 2

----------------------------------------------------------------------------
(* String helpers: String.prototype.startsWith / slice / trim / split,     *)
(* Array.prototype.join.                                                   *)

NL == "\n"

StartsWith(s, p) == Len(s) >= Len(p) /\ SubSeq(s, 1, Len(p)) = p

Slice(s, n) == SubSeq(s, n + 1, Len(s))

IsSpace(c) == c \in {" ", "\n", "\t", "\r"}

RECURSIVE TrimStart(_)
TrimStart(s) ==
  IF s # <<>> /\ IsSpace(Head(s)) THEN TrimStart(Tail(s)) ELSE s

RECURSIVE TrimEnd(_)
TrimEnd(s) ==
  IF s # <<>> /\ IsSpace(s[Len(s)]) THEN TrimEnd(SubSeq(s, 1, Len(s) - 1)) ELSE s

Trim(s) == TrimEnd(TrimStart(s))

\* buffer.split('\n'): the pieces between newlines, always at least one
Split(s) ==
  LET nl == {i \in 1..Len(s) : s[i] = NL}
      \* position of the j-th newline; 0 before the first, Len(s)+1 after the last
      At(j) == IF j = 0 THEN 0
               ELSE IF j > Cardinality(nl) THEN Len(s) + 1
               ELSE CHOOSE p \in nl : Cardinality({q \in nl : q < p}) = j - 1
  IN  [j \in 1..(Cardinality(nl) + 1) |-> SubSeq(s, At(j - 1) + 1, At(j) - 1)]

\* the value of a missing JSON field
Undefined == <<"undefined">>

\* Array.prototype.join(''): undefined elements contribute the empty string
RECURSIVE Join(_)
Join(parts) ==
  IF parts = <<>> THEN <<>>
  ELSE (IF Head(parts) = Undefined THEN <<>> ELSE Head(parts)) \o Join(Tail(parts))

----------------------------------------------------------------------------
(* Wire constants of the code.                                             *)

EventPrefix == <<"e","v","e","n","t",":"," ">>
DataPrefix == <<"d","a","t","a",":"," ">>
MessageType == <<"m","e","s","s","a","g","e">>
ThinkingChunkType == <<"t","h","i","n","k","i","n","g","_","c","h","u","n","k">>
StepType == <<"s","t","e","p">>
DoneType == <<"d","o","n","e">>
AbortedType == <<"a","b","o","r","t","e","d">>
ErrorType == <<"e","r","r","o","r">>

AbortedByUser == "Connection aborted by user"
BodyIsNull == "Response body is null"
HttpErrorStatus == "HTTP error! status: 500"

\* `HTTP error! status: ${response.status}`
HttpErrorMessage(status) ==
  CASE status = 500 -> HttpErrorStatus
    [] status = 422 -> "HTTP error! status: 422"
    [] status = 404 -> "HTTP error! status: 404"

----------------------------------------------------------------------------
(* The response bodies the server may send.                                *)

He == <<"H","e">>
Llo == <<"l","l","o">>
T == <<"t">>

JsonChunkHe == <<"{","\"","c","h","u","n","k","\"",":","\"","H","e","\"","}">>
JsonChunkLlo == <<"{","\"","c","h","u","n","k","\"",":","\"","l","l","o","\"","}">>
JsonStepT == <<"{","\"","t","h","i","n","k","i","n","g","\"",":","\"","t","\"","}">>
JsonEmpty == <<"{","}">>
JsonMsgOk == <<"{","\"","m","e","s","s","a","g","e","\"",":","\"","o","k","\"","}">>
JsonBad == <<"{","b","a","d">>
JsonNull == <<"n","u","l","l">>
JsonDoneTyped == <<"{","\"","t","y","p","e","\"",":","\"","d","o","n","e","\"","}">>
JsonStepA == <<"{","\"","a","c","t","i","o","n","\"",":","\"","A","\"","}">>

LineEvThinking == EventPrefix \o ThinkingChunkType
LineEvStep == EventPrefix \o StepType
LineEvDone == EventPrefix \o DoneType
LineEvError == EventPrefix \o ErrorType
LineEvAborted == EventPrefix \o AbortedType
DataLine(json) == DataPrefix \o json

\* a frame is a few complete lines; a data line alone relies on the event
\* name carried over from the frame before it
FrameChunks == <<LineEvThinking, DataLine(JsonChunkHe), DataLine(JsonChunkLlo)>>
FrameStep == <<LineEvStep, DataLine(JsonEmpty)>>
FrameDone == <<LineEvDone, DataLine(JsonMsgOk)>>
FrameError == <<LineEvError, DataLine(JsonEmpty)>>
FrameAborted == <<LineEvAborted, DataLine(JsonEmpty)>>
FrameBad == <<DataLine(JsonBad)>>

Units == {FrameChunks, FrameStep, FrameDone, FrameError, FrameAborted, FrameBad}

RECURSIVE Flatten(_)
Flatten(ls) == IF ls = <<>> THEN <<>> ELSE Head(ls) \o Flatten(Tail(ls))

\* the text of a sequence of lines, each terminated by a newline
RECURSIVE WireText(_)
WireText(ls) == IF ls = <<>> THEN <<>> ELSE Head(ls) \o <<NL>> \o WireText(Tail(ls))

FrameSeqs(units, n) == UNION {[1..k -> units] : k \in 0..n}

Texts(units, n) == {WireText(Flatten(fs)) : fs \in FrameSeqs(units, n)}

----------------------------------------------------------------------------
(* JSON.parse on the payloads above: a parsed object, or a SyntaxError.    *)

IsJson(s) ==
  s \in {JsonChunkHe, JsonChunkLlo, JsonStepT, JsonEmpty, JsonMsgOk, JsonNull,
         JsonDoneTyped, JsonStepA}

\* a parsed payload: the fields the callbacks read ("undefined" when the
\* payload does not have them), or the value null
NoFields ==
  [chunk |-> Undefined, thinking |-> Undefined, message |-> "undefined",
   type |-> "undefined", action |-> "undefined", null |-> FALSE]

JsonParse(s) ==
  CASE s = JsonChunkHe -> [NoFields EXCEPT !.chunk = He]
    [] s = JsonChunkLlo -> [NoFields EXCEPT !.chunk = Llo]
    [] s = JsonStepT -> [NoFields EXCEPT !.thinking = T]
    [] s = JsonMsgOk -> [NoFields EXCEPT !.message = "ok"]
    [] s = JsonNull -> [NoFields EXCEPT !.null = TRUE]
    [] s = JsonDoneTyped -> [NoFields EXCEPT !.type = "done"]
    [] s = JsonStepA -> [NoFields EXCEPT !.action = "A"]
    [] OTHER -> NoFields

----------------------------------------------------------------------------
(* State.                                                                  *)

VARIABLES
  pc,                   \* where the promise chain of sendMessageStream stands
  aborted,              \* controller.signal.aborted
  hasOnAborted,         \* whether the optional onAborted callback was passed
  text,                 \* the whole response body the server sends
  pos,                  \* how much of it reader.read() has delivered
  errBody,              \* what the body of a non-OK response holds
  buffer,               \* sendMessageStream: pending partial line
  eventType,            \* sendMessageStream: current event name
  thinkingChunksBuffer, \* handleSend: fragments not flushed yet
  currentThinkingText,  \* handleSend: text streamed since the last step
  updateTimeoutId,      \* handleSend: "null" or the handle of a setTimeout
  timerPending,         \* whether that timeout is still scheduled
  thinkingList,         \* handleSend: thinking text of the finished steps
  actionsList,          \* handleSend: actions of the finished steps
  messages,             \* DevicePanel: the assistant messages of the chat
  loading,              \* DevicePanel: a session is running (abort button shown)
  chatStreamRef,        \* DevicePanel: id of the session whose handle is held, 0 for null
  calls,                \* history: callbacks invoked by sendMessageStream
  observed,             \* history: setMessages updates made by the callbacks
  closeAt,              \* history: Len(calls) at the first close(), or -1
  closePc,              \* history: pc at the first close(), or "none"
  readLimit,            \* transport: largest partial read it delivers
  cutInLine,            \* history: some read ended inside a line
  httpStatus,           \* response.status of a non-OK response, else 200
  settledBy,            \* history: what ended the promise chain
  closes,               \* history: how many times close() was called
  closeBudget,          \* caller: how many times it calls close() at most
  reentrant,            \* caller: whether its callbacks may call close()
  sessions,             \* panel: the sessions handleSend has started, oldest first
  actor,                \* history: the session whose event the last step handled, or 0
  error,                \* getErrorMessage: its argument
  returned,             \* getErrorMessage: its result, "pending" before the call
  aborting,             \* DevicePanel: handleAbortChat is running
  abortRequests,        \* abortChat requests the backend has not answered yet
  history,              \* HistoryComponent: its React state
  requests,             \* HistoryComponent: its calls awaiting the backend's answer
  store                 \* backend: the history records of each device

vars == <<pc, aborted, hasOnAborted, text, pos, errBody, buffer, eventType,
          thinkingChunksBuffer, currentThinkingText, updateTimeoutId,
          timerPending, thinkingList, actionsList, messages, loading,
          chatStreamRef, calls, observed, closeAt, closePc,
          readLimit, cutInLine, httpStatus, settledBy, closes, closeBudget,
          reentrant, sessions, actor, error, returned, aborting,
          abortRequests, history, requests, store>>

\* what the synchronous code of one turn of the event loop reads and writes
Cur ==
  [buffer |-> buffer, eventType |-> eventType,
   thinkingChunksBuffer |-> thinkingChunksBuffer,
   currentThinkingText |-> currentThinkingText,
   updateTimeoutId |-> updateTimeoutId, timerPending |-> timerPending,
   thinkingList |-> thinkingList, actionsList |-> actionsList,
   messages |-> messages, loading |-> loading, chatStreamRef |-> chatStreamRef,
   calls |-> calls, observed |-> observed,
   agentMessageId |-> 1, thrown |-> FALSE]

Becomes(st) ==
  /\ buffer' = st.buffer
  /\ eventType' = st.eventType
  /\ thinkingChunksBuffer' = st.thinkingChunksBuffer
  /\ currentThinkingText' = st.currentThinkingText
  /\ updateTimeoutId' = st.updateTimeoutId
  /\ timerPending' = st.timerPending
  /\ thinkingList' = st.thinkingList
  /\ actionsList' = st.actionsList
  /\ messages' = st.messages
  /\ loading' = st.loading
  /\ chatStreamRef' = st.chatStreamRef
  /\ calls' = st.calls
  /\ observed' = st.observed

----------------------------------------------------------------------------
(* DevicePanel.handleSend: the coalescer and the five callbacks.           *)

Update(kind, txt, armed, st) ==
  [kind |-> kind, text |-> txt, armed |-> armed,
   pending |-> st.thinkingChunksBuffer]

\* const agentMessage: the assistant message handleSend appends
AgentMessage(id) ==
  [id |-> id, role |-> "assistant", isStreaming |-> TRUE, currentThinking |-> <<>>,
   thinking |-> <<>>, actions |-> <<>>]

\* const userMessage: the message handleSend appends before it; it has no
\* isStreaming field
UserMessage(id) == [id |-> id, role |-> "user"]

\* {...msg, field: value, ...}
Spread(msg, fields) ==
  [f \in DOMAIN msg |-> IF f \in DOMAIN fields THEN fields[f] ELSE msg[f]]

\* setMessages(prev => prev.map(msg =>
\*   msg.id === agentMessageId ? {...msg, ...} : msg))
UpdateAgentMessage(st, fields) ==
  [st EXCEPT !.messages =
     [i \in DOMAIN @ |->
        IF @[i].id = st.agentMessageId THEN Spread(@[i], fields) ELSE @[i]]]

\* a final update that puts the message back when the list has lost it
ReplaceAgentMessage_Appends(st, updatedAgentMessage) ==
  IF \E i \in DOMAIN st.messages : st.messages[i].id = st.agentMessageId
  THEN [st EXCEPT !.messages =
          [i \in DOMAIN @ |->
             IF @[i].id = st.agentMessageId THEN updatedAgentMessage ELSE @[i]]]
  ELSE [st EXCEPT !.messages = Append(@, updatedAgentMessage)]

\* setMessages(prev => prev.map(msg =>
\*   msg.id === agentMessageId ? updatedAgentMessage : msg))
ReplaceAgentMessage(st, updatedAgentMessage) ==
  [st EXCEPT !.messages =
     [i \in DOMAIN @ |->
        IF @[i].id = st.agentMessageId THEN updatedAgentMessage ELSE @[i]]]

\* a property of the event is read and the event is null: TypeError
Throws(st) == [st EXCEPT !.thrown = TRUE]

\* a flush that forgets to empty the buffer
flushThinkingUpdate_KeepsBuffer(st) ==
  LET chunksToAdd == Join(st.thinkingChunksBuffer)
      flushed == [st EXCEPT !.currentThinkingText = @ \o chunksToAdd]
  IN  IF st.thinkingChunksBuffer # <<>>
      THEN [flushed EXCEPT !.observed =
              Append(@, Update("thinking", chunksToAdd, FALSE, flushed)),
              !.updateTimeoutId = "null"]
      ELSE [st EXCEPT !.updateTimeoutId = "null"]

flushThinkingUpdate(st) ==
  LET chunksToAdd == Join(st.thinkingChunksBuffer)
      flushed == [st EXCEPT !.thinkingChunksBuffer = <<>>,
                            !.currentThinkingText = @ \o chunksToAdd]
      Shown == [currentThinking |-> flushed.currentThinkingText]
  IN  IF st.thinkingChunksBuffer # <<>>
      THEN [UpdateAgentMessage(flushed, Shown) EXCEPT !.observed =
              Append(@, Update("thinking", chunksToAdd, FALSE, flushed)),
              !.updateTimeoutId = "null"]
      ELSE [st EXCEPT !.updateTimeoutId = "null"]

\* clearTimeout(updateTimeoutId): the handle variable keeps its value
clearTimeout(st) == [st EXCEPT !.timerPending = FALSE]

\* a chunk callback that buffers without arming the timer
OnThinkingChunkCb_NoTimer(st, event) ==
  [st EXCEPT !.thinkingChunksBuffer = Append(@, event.chunk)]

OnThinkingChunkCb(st, event) ==
  LET pushed == [st EXCEPT !.thinkingChunksBuffer = Append(@, event.chunk)]
  IN  IF event.null THEN Throws(st)
      ELSE IF st.updateTimeoutId = "null"
      THEN [pushed EXCEPT !.updateTimeoutId = "timer", !.timerPending = TRUE]
      ELSE pushed

\* a step callback that cancels the timer without flushing
OnStepCb_NoFlush(st, event) ==
  LET st1 == IF st.updateTimeoutId # "null" THEN clearTimeout(st) ELSE st
      stepThinking == IF event.thinking # Undefined /\ Len(event.thinking) > 0
                      THEN event.thinking
                      ELSE st1.currentThinkingText
      st2 == IF stepThinking # <<>>
             THEN [st1 EXCEPT !.thinkingList = Append(@, stepThinking)]
             ELSE st1
      st3 == [st2 EXCEPT !.currentThinkingText = <<>>]
  IN  [st3 EXCEPT !.observed = Append(@, Update("step", <<>>, st.timerPending, st3))]

\* a step callback that leaves the accumulated thinking text in place
OnStepCb_KeepsText(st, event) ==
  LET st1 == IF st.updateTimeoutId # "null"
             THEN flushThinkingUpdate(clearTimeout(st))
             ELSE st
      stepThinking == IF event.thinking # Undefined /\ Len(event.thinking) > 0
                      THEN event.thinking
                      ELSE st1.currentThinkingText
      st2 == IF stepThinking # <<>>
             THEN [st1 EXCEPT !.thinkingList = Append(@, stepThinking)]
             ELSE st1
      st3 == [st2 EXCEPT !.actionsList = Append(@, event.action)]
      Shown == [thinking |-> st3.thinkingList, actions |-> st3.actionsList,
                currentThinking |-> <<>>]
  IN  IF event.null THEN Throws(st1)
      ELSE [UpdateAgentMessage(st3, Shown) EXCEPT !.observed =
              Append(@, Update("step", <<>>, st.timerPending, st3))]

OnStepCb(st, event) ==
  LET st1 == IF st.updateTimeoutId # "null"
             THEN flushThinkingUpdate(clearTimeout(st))
             ELSE st
      stepThinking == IF event.thinking # Undefined /\ Len(event.thinking) > 0
                      THEN event.thinking
                      ELSE st1.currentThinkingText
      st2 == IF stepThinking # <<>>
             THEN [st1 EXCEPT !.thinkingList = Append(@, stepThinking)]
             ELSE st1
      st3 == [st2 EXCEPT !.currentThinkingText = <<>>,
                         !.actionsList = Append(@, event.action)]
      Shown == [thinking |-> st3.thinkingList, actions |-> st3.actionsList,
                currentThinking |-> <<>>]
  IN  IF event.null THEN Throws(st1)
      ELSE [UpdateAgentMessage(st3, Shown) EXCEPT !.observed =
              Append(@, Update("step", <<>>, st.timerPending, st3))]

\* onDone, onError and onAborted of handleSend differ only in the final
\* message they write
OnTerminalCb(st, kind, event) ==
  LET st1 == IF st.updateTimeoutId # "null" THEN clearTimeout(st) ELSE st
      updatedAgentMessage ==
        [AgentMessage(st.agentMessageId) EXCEPT
           !.isStreaming = FALSE, !.thinking = st1.thinkingList,
           !.actions = st1.actionsList, !.currentThinking = Undefined]
  IN  IF event.null THEN Throws(st1)
      ELSE [ReplaceAgentMessage(st1, updatedAgentMessage) EXCEPT
              !.observed = Append(@, Update(kind, <<>>, st.timerPending, st1)),
              !.loading = FALSE,
              !.chatStreamRef = 0]

OnDoneCb(st, event) == OnTerminalCb(st, "done", event)
OnErrorCb(st, event) == OnTerminalCb(st, "error", event)
OnAbortedCb(st, event) == OnTerminalCb(st, "aborted", event)

----------------------------------------------------------------------------
(* sendMessageStream: the line loop.                                       *)

Call(st, cb, event, src) ==
  [st EXCEPT !.calls = Append(@, [cb |-> cb, event |-> event, src |-> src])]

\* a dispatch that reports an event name it does not know as an error
Dispatch_UnknownIsError(st, data, withOnAborted) ==
  CASE st.eventType = ThinkingChunkType ->
         OnThinkingChunkCb(Call(st, "thinking_chunk", data, "frame"), data)
    [] st.eventType = StepType ->
         OnStepCb(Call(st, "step", data, "frame"), data)
    [] st.eventType = DoneType ->
         OnDoneCb(Call(st, "done", data, "frame"), data)
    [] st.eventType = AbortedType ->
         IF withOnAborted
         THEN OnAbortedCb(Call(st, "aborted", data, "frame"), data)
         ELSE st
    [] OTHER -> OnErrorCb(Call(st, "error", data, "frame"), data)

\* if / else-if chain on eventType inside the try block
Dispatch(st, data, withOnAborted) ==
  CASE st.eventType = ThinkingChunkType ->
         OnThinkingChunkCb(Call(st, "thinking_chunk", data, "frame"), data)
    [] st.eventType = StepType ->
         OnStepCb(Call(st, "step", data, "frame"), data)
    [] st.eventType = DoneType ->
         OnDoneCb(Call(st, "done", data, "frame"), data)
    [] st.eventType = AbortedType ->
         IF withOnAborted
         THEN OnAbortedCb(Call(st, "aborted", data, "frame"), data)
         ELSE st
    [] st.eventType = ErrorType ->
         OnErrorCb(Call(st, "error", data, "frame"), data)
    [] OTHER -> st

\* a parse failure that also forgets the current event name
OnParseFailure_Resets(st) == [st EXCEPT !.eventType = MessageType]

\* catch (e) around JSON.parse and the dispatch: console.error only
OnParseFailure(st) == st

\* a loop without the try block: what a callback throws is not caught
Caught_Rethrows(st) == st

\* the same catch (e) when a callback has thrown
Caught(st) == [st EXCEPT !.thrown = FALSE]

\* a line loop in which every line that is not an event: line ends the
\* frame and puts the event name back to 'message'
ProcessLine_EndsFrame(st, line, withOnAborted) ==
  IF StartsWith(line, EventPrefix)
  THEN [st EXCEPT !.eventType = Trim(Slice(line, 7))]
  ELSE IF StartsWith(line, DataPrefix)
  THEN [(IF IsJson(Slice(line, 6))
         THEN Dispatch(st, JsonParse(Slice(line, 6)), withOnAborted)
         ELSE OnParseFailure(st)) EXCEPT !.eventType = MessageType]
  ELSE [st EXCEPT !.eventType = MessageType]

ProcessLine(st, line, withOnAborted) ==
  IF StartsWith(line, EventPrefix)
  THEN [st EXCEPT !.eventType = Trim(Slice(line, 7))]
  ELSE IF StartsWith(line, DataPrefix)
  THEN IF IsJson(Slice(line, 6))
       THEN Caught(Dispatch(st, JsonParse(Slice(line, 6)), withOnAborted))
       ELSE OnParseFailure(st)
  ELSE st

RECURSIVE ProcessLines(_, _, _)
ProcessLines(st, lines, withOnAborted) ==
  \* an exception that nothing caught leaves the for loop
  IF lines = <<>> \/ st.thrown THEN st
  ELSE ProcessLines(ProcessLine(st, Head(lines), withOnAborted), Tail(lines),
                    withOnAborted)

\* a loop that throws the unfinished last line away
KeepLast_Drops(lines) == <<>>

\* lines.pop() || ''
KeepLast(lines) == lines[Len(lines)]

\* a loop that also decodes the unfinished last line
ProcessChunk_DecodesLast(st, chunk, withOnAborted) ==
  LET lines == Split(st.buffer \o chunk)
  IN  ProcessLines([st EXCEPT !.buffer = KeepLast(lines)], lines, withOnAborted)

\* one turn of the while loop after reader.read() returned a chunk
ProcessChunk(st, chunk, withOnAborted) ==
  LET lines == Split(st.buffer \o chunk)
  IN  ProcessLines([st EXCEPT !.buffer = KeepLast(lines)],
                   SubSeq(lines, 1, Len(lines) - 1), withOnAborted)

\* the events .catch builds itself
LocalAborted == [NoFields EXCEPT !.type = "aborted", !.message = AbortedByUser]
LocalError(message) == [NoFields EXCEPT !.type = "error", !.message = message]

\* a catch that reports cancellation only
Catch_AbortOnly(st, errorName, message, withOnAborted) ==
  IF errorName = "AbortError" /\ withOnAborted
  THEN OnAbortedCb(Call(st, "aborted",
                        LocalAborted, "catch"),
                   LocalAborted)
  ELSE st

\* a catch that does not look at error.name
Catch_NoAbortCheck(st, errorName, message, withOnAborted) ==
  OnErrorCb(Call(st, "error", LocalError(message), "catch"),
            LocalError(message))

\* .catch(error => ...)
Catch(st, errorName, message, withOnAborted) ==
  IF errorName = "AbortError"
  THEN IF withOnAborted
       THEN OnAbortedCb(Call(st, "aborted",
                             LocalAborted, "catch"),
                        LocalAborted)
       ELSE st
  ELSE OnErrorCb(Call(st, "error", LocalError(message), "catch"),
                 LocalError(message))

\* null, as an argument of getErrorMessage
NoError ==
  [kind |-> "null", isError |-> FALSE, detail |-> "undefined",
   message |-> "undefined", status |-> -1]

----------------------------------------------------------------------------
(* Initial state: handleSend has called sendMessageStream, fetch is        *)
(* pending, no callback has run.                                           *)

\* the locals of sendMessageStream and handleSend before any callback
Start ==
  [buffer |-> <<>>, eventType |-> MessageType, thinkingChunksBuffer |-> <<>>,
   currentThinkingText |-> <<>>, updateTimeoutId |-> "null",
   timerPending |-> FALSE, thinkingList |-> <<>>, actionsList |-> <<>>,
   messages |-> <<AgentMessage(1)>>, loading |-> TRUE, chatStreamRef |-> 1,
   calls |-> <<>>, observed |-> <<>>, agentMessageId |-> 1, thrown |-> FALSE]

\* HistoryComponent before its first effect, no call awaiting an answer
HistoryStart ==
  [selectedSerial |-> "", records |-> <<>>, total |-> 0, offset |-> 0,
   loading |-> FALSE, loadingMore |-> FALSE]

HistoryAtRest ==
  /\ history = HistoryStart
  /\ requests = <<>>
  /\ store = <<>>

\* a caller of sendMessageStream; onAborted is an optional parameter
InitCaller(texts, wholeReads, budget, callbacksClose, withOnAborted) ==
  /\ pc = "fetching"
  /\ aborted = FALSE
  /\ hasOnAborted = withOnAborted
  /\ text \in texts
  /\ pos = 0
  /\ errBody = "none"
  /\ buffer = <<>>
  /\ eventType = MessageType
  /\ thinkingChunksBuffer = <<>>
  /\ currentThinkingText = <<>>
  /\ updateTimeoutId = "null"
  /\ timerPending = FALSE
  /\ thinkingList = <<>>
  /\ actionsList = <<>>
  /\ messages = <<AgentMessage(1)>>
  /\ loading = TRUE
  /\ chatStreamRef = 1
  /\ calls = <<>>
  /\ observed = <<>>
  /\ closeAt = -1
  /\ closePc = "none"
  /\ readLimit = IF wholeReads THEN Len(text) ELSE MaxRead
  /\ cutInLine = FALSE
  /\ httpStatus = 200
  /\ settledBy = "none"
  /\ closes = 0
  /\ closeBudget = budget
  /\ reentrant = callbacksClose
  /\ sessions = <<>>
  /\ actor = 0
  /\ error = NoError
  /\ returned = "pending"
  /\ aborting = FALSE
  /\ abortRequests = <<>>
  /\ HistoryAtRest

\* a caller that passes onAborted, as DevicePanel does
InitSession(texts, wholeReads, budget, callbacksClose) ==
  InitCaller(texts, wholeReads, budget, callbacksClose, TRUE)

\* DevicePanel as the caller: its callbacks never call close(), and it calls
\* close() once (handleAbortChat and handleReset drop the handle)
InitWith(texts, wholeReads) == InitSession(texts, wholeReads, 1, FALSE)

Init == InitWith(Texts(Units, MaxFrames), FALSE)

\* the same session when the transport may cut the body anywhere; the body
\* is any sequence of these lines
LineUnits == {<<LineEvThinking>>, <<LineEvDone>>, <<DataLine(JsonChunkHe)>>,
              <<DataLine(JsonMsgOk)>>, <<DataLine(JsonBad)>>}

InitChunks == InitWith(Texts(LineUnits, MaxLines), TRUE)

\* any caller of the exported function: it may call close() several times,
\* also from inside its callbacks
CloseUnits == {FrameChunks, FrameStep, FrameDone}

InitClose == InitSession(Texts(CloseUnits, MaxFrames), FALSE, MaxCloses, TRUE)

\* a caller that leaves onAborted out and may call close() once
SilentUnits == {FrameChunks, FrameAborted, FrameDone, FrameError}

InitSilent == InitCaller(Texts(SilentUnits, MaxFrames), FALSE, 1, FALSE, FALSE)

\* bodies with event names the code does not know, lines that are neither
\* event: nor data: lines, and a last line without its newline
LineEvPing == EventPrefix \o <<"p","i","n","g">>
LineBlank == <<>>
LineComment == <<":"," ","h","i">>
LineDataNoSpace == <<"d","a","t","a",":","{","}">>

OtherLineUnits == {<<LineEvPing>>, <<LineEvDone>>, <<DataLine(JsonEmpty)>>,
                   <<LineBlank>>, <<LineDataNoSpace>>}

Tails == {<<>>, DataLine(JsonEmpty)}

\* a thinking frame with one of the other lines around it
ThinkingTexts ==
  {WireText(<<LineEvThinking, l, DataLine(JsonChunkHe)>>) :
     l \in {LineBlank, LineComment, LineDataNoSpace}}

TextsWithTail(units, n) == {t \o tail : t \in Texts(units, n), tail \in Tails}

\* a frame whose payload is null, carries a type of its own or an action,
\* followed by a done frame
PayloadTexts ==
  {WireText(<<ev, DataLine(json), LineEvDone, DataLine(JsonMsgOk)>>) :
     ev \in {LineEvThinking, LineEvStep, LineEvDone},
     json \in {JsonNull, JsonDoneTyped, JsonStepA}}

InitLines ==
  InitWith(TextsWithTail(OtherLineUnits, MaxLines) \cup ThinkingTexts
             \cup PayloadTexts, TRUE)

----------------------------------------------------------------------------
(* Actions: one per settled promise, timer or call from outside.           *)

\* the other sessions of a panel and the argument of getErrorMessage are
\* out of the reach of one session
Elsewhere == <<sessions, actor, error, returned, aborting, abortRequests,
               history, requests, store>>
Transport == <<text, hasOnAborted, readLimit, closeBudget, reentrant, Elsewhere>>
Closing == <<aborted, closeAt, closePc, cutInLine, closes>>
Http == <<errBody, httpStatus>>

\* fetch resolves with response.ok and a body
ResponseOk ==
  /\ pc = "fetching" /\ ~aborted
  /\ pc' = "reading"
  /\ UNCHANGED <<Transport, Closing, Http, pos, settledBy>>
  /\ Becomes(Cur)

\* fetch resolves with !response.ok: await response.json()
ResponseNotOk ==
  /\ pc = "fetching" /\ ~aborted
  /\ pc' = "errorBody"
  /\ httpStatus' \in {404, 422, 500}
  /\ errBody' \in {"detail", "detailEmpty", "detailList", "nodetail", "notjson"}
  /\ UNCHANGED <<Transport, Closing, pos, settledBy>>
  /\ Becomes(Cur)

\* a detail that is no string, as thrown by new Error(errorData.detail)
ObjectAsString == "[object Object]"

\* the non-OK branch: errorDetail after the try block, for a body that was
\* read; errorData.detail replaces the default when it is truthy
ErrorDetail(status, body) ==
  CASE body = "detail" -> "agent busy"
    [] body = "detailList" -> ObjectAsString
    [] OTHER -> HttpErrorMessage(status)

\* response.json() settles (it rejects when the read fails or is aborted:
\* the empty catch keeps the default); errorDetail is thrown and caught
ErrorBodyRead ==
  /\ pc = "errorBody"
  /\ \E failed \in {aborted, TRUE} :
       /\ errBody' = IF failed THEN "unread" ELSE errBody
       /\ Becomes(Catch(Cur, "Error", ErrorDetail(httpStatus, errBody'),
                        hasOnAborted))
  /\ pc' = "caught"
  /\ settledBy' = "http"
  /\ UNCHANGED <<Transport, Closing, pos, httpStatus>>

\* fetch resolves with response.ok and no body
ResponseNoBody ==
  /\ pc = "fetching" /\ ~aborted
  /\ Becomes(Catch(Cur, "Error", BodyIsNull, hasOnAborted))
  /\ pc' = "caught"
  /\ settledBy' = "nobody"
  /\ UNCHANGED <<Transport, Closing, Http, pos>>

\* fetch rejects for a reason other than abort
FetchFail ==
  /\ pc = "fetching" /\ ~aborted
  /\ Becomes(Catch(Cur, "TypeError", "Failed to fetch", hasOnAborted))
  /\ pc' = "caught"
  /\ settledBy' = "fetchFail"
  /\ UNCHANGED <<Transport, Closing, Http, pos>>

ReadSizes == {k \in 1..(Len(text) - pos) : k <= readLimit \/ k = Len(text) - pos}

\* the callbacks of a chunk in which close() may be called: none (0), or
\* the c-th callback invoked for the chunk
ClosePoints(made) ==
  {c \in 0..made : c = 0 \/ (reentrant /\ closes < closeBudget)}

\* a fetch that was not given controller.signal: reads go on after abort()
Read_IgnoresAbort ==
  /\ pc = "reading"
  /\ \E k \in ReadSizes :
       /\ pos' = pos + k
       /\ Becomes(ProcessChunk(Cur, SubSeq(text, pos + 1, pos + k), hasOnAborted))
  /\ UNCHANGED <<aborted, closeAt, closePc, closes>>
  /\ cutInLine' = (cutInLine \/ buffer' # <<>>)
  /\ UNCHANGED <<Transport, Http, pc, settledBy>>

\* a loop that checks the signal after every callback: the lines left in the
\* chunk are dropped once a callback has called close()
Read_StopsAtClose ==
  /\ pc = "reading" /\ ~aborted
  /\ \E k \in ReadSizes :
       \E c \in ClosePoints(Len(ProcessChunk(Cur, SubSeq(text, pos + 1, pos + k),
                                              hasOnAborted).calls) - Len(calls)) :
         /\ pos' = pos + k
         /\ IF c = 0
            THEN /\ Becomes(ProcessChunk(Cur, SubSeq(text, pos + 1, pos + k),
                                         hasOnAborted))
                 /\ UNCHANGED <<aborted, closeAt, closePc, closes>>
            ELSE /\ Becomes([ProcessChunk(Cur, SubSeq(text, pos + 1, pos + k),
                                          hasOnAborted)
                               EXCEPT !.calls = SubSeq(@, 1, Len(calls) + c)])
                 /\ aborted' = TRUE
                 /\ closeAt' = Len(calls) + c
                 /\ closePc' = "callback"
                 /\ closes' = closes + 1
  /\ cutInLine' = (cutInLine \/ buffer' # <<>>)
  /\ UNCHANGED <<Transport, Http, pc, settledBy>>

\* reader.read() resolves with a chunk of k characters; the bodies are ASCII,
\* so decoder.decode(value, {stream: true}) yields one character per byte.
\* A callback of the caller may call close() while the chunk is processed:
\* controller.abort() only sets the signal, the for loop goes on
Read ==
  /\ pc = "reading" /\ ~aborted
  /\ \E k \in ReadSizes :
       /\ pos' = pos + k
       /\ Becomes(ProcessChunk(Cur, SubSeq(text, pos + 1, pos + k), hasOnAborted))
  /\ \E c \in ClosePoints(Len(calls') - Len(calls)) :
       IF c = 0
       THEN UNCHANGED <<aborted, closeAt, closePc, closes>>
       ELSE /\ aborted' = TRUE
            /\ closeAt' = Len(calls) + c
            /\ closePc' = "callback"
            /\ closes' = closes + 1
  /\ cutInLine' = (cutInLine \/ buffer' # <<>>)
  /\ UNCHANGED <<Transport, Http, pc, settledBy>>

\* reader.read() resolves with done: break, the promise chain ends
ReadEnd ==
  /\ pc = "reading" /\ ~aborted
  /\ pos = Len(text)
  /\ pc' = "ended"
  /\ settledBy' = "ended"
  /\ UNCHANGED <<Transport, Closing, Http, pos>>
  /\ Becomes(Cur)

\* reader.read() rejects for a reason other than abort
ReadFail ==
  /\ pc = "reading" /\ ~aborted
  /\ Becomes(Catch(Cur, "TypeError", "network error", hasOnAborted))
  /\ pc' = "caught"
  /\ settledBy' = "readFail"
  /\ UNCHANGED <<Transport, Closing, Http, pos>>

\* fetch or reader.read() rejects with AbortError after controller.abort()
AbortReject ==
  /\ pc \in {"fetching", "reading"} /\ aborted
  /\ Becomes(Catch(Cur, "AbortError", "The user aborted a request.", hasOnAborted))
  /\ pc' = "caught"
  /\ settledBy' = "abort"
  /\ UNCHANGED <<Transport, Closing, Http, pos>>

\* a close() that dispatches the Aborted event itself, on every call
Close_Dispatches ==
  /\ closes < closeBudget
  /\ closes' = closes + 1
  /\ aborted' = TRUE
  /\ closeAt' = IF aborted THEN closeAt ELSE Len(calls)
  /\ closePc' = IF aborted THEN closePc ELSE pc
  /\ UNCHANGED <<Transport, Http, pc, pos, cutInLine, settledBy>>
  /\ Becomes(Catch(Cur, "AbortError", "The user aborted a request.", hasOnAborted))

\* close(): controller.abort(); abort() on an aborted signal changes nothing
Close ==
  /\ closes < closeBudget
  /\ closes' = closes + 1
  /\ aborted' = TRUE
  /\ closeAt' = IF aborted THEN closeAt ELSE Len(calls)
  /\ closePc' = IF aborted THEN closePc ELSE pc
  /\ UNCHANGED <<Transport, Http, pc, pos, cutInLine, settledBy>>
  /\ Becomes(Cur)

\* the 50 ms timeout set by the onThinkingChunk callback expires
TimerFire ==
  /\ timerPending
  /\ Becomes([flushThinkingUpdate(Cur) EXCEPT !.timerPending = FALSE])
  /\ UNCHANGED <<Transport, Closing, Http, pc, pos, settledBy>>

Next ==
  \/ ResponseOk
  \/ ResponseNotOk
  \/ ErrorBodyRead
  \/ ResponseNoBody
  \/ FetchFail
  \/ Read
  \/ ReadEnd
  \/ ReadFail
  \/ AbortReject
  \/ Close
  \/ TimerFire

Spec == Init /\ [][Next]_vars

SpecChunks == InitChunks /\ [][Next]_vars

SpecClose == InitClose /\ [][Next]_vars

SpecLines == InitLines /\ [][Next]_vars

SpecSilent == InitSilent /\ [][Next]_vars

----------------------------------------------------------------------------
(* getErrorMessage (api.ts), a pure function of the error it is given.     *)

\* the variables of the streaming session, which these specifications leave
\* at rest
Stream ==
  <<pc, aborted, hasOnAborted, text, pos, errBody, buffer, eventType,
    thinkingChunksBuffer, currentThinkingText, updateTimeoutId, timerPending,
    thinkingList, actionsList, calls, observed, closeAt, closePc, readLimit,
    cutInLine, httpStatus, settledBy, closes, closeBudget, reentrant>>

StreamAtRest ==
  /\ pc = "none"
  /\ aborted = FALSE
  /\ hasOnAborted = TRUE
  /\ text = <<>>
  /\ pos = 0
  /\ errBody = "none"
  /\ buffer = <<>>
  /\ eventType = MessageType
  /\ thinkingChunksBuffer = <<>>
  /\ currentThinkingText = <<>>
  /\ updateTimeoutId = "null"
  /\ timerPending = FALSE
  /\ thinkingList = <<>>
  /\ actionsList = <<>>
  /\ calls = <<>>
  /\ observed = <<>>
  /\ closeAt = -1
  /\ closePc = "none"
  /\ readLimit = 0
  /\ cutInLine = FALSE
  /\ httpStatus = 200
  /\ settledBy = "none"
  /\ closes = 0
  /\ closeBudget = 0
  /\ reentrant = FALSE

\* the errors getErrorMessage is called with: null, a thrown string, plain
\* objects and Error instances with or without data.detail, message and
\* status ("undefined" and -1 stand for a missing field; an Error instance
\* always has a message string)
Errors ==
  {[kind |-> k, isError |-> FALSE, detail |-> "undefined",
    message |-> "undefined", status |-> -1] : k \in {"null", "string"}}
  \cup
  {e \in [kind : {"object"}, isError : BOOLEAN,
          detail : {"undefined", "", "agent busy"},
          message : {"undefined", "", "boom"},
          status : {-1, 0, 404, 500}] :
     e.isError => e.message # "undefined"}

\* JavaScript truthiness of a string field and of a status
TruthyString(v) == v \notin {"undefined", ""}
TruthyStatus(n) == n \notin {-1, 0}

getErrorMessage(e) ==
  IF e.kind = "object" /\ TruthyString(e.detail) THEN e.detail
  ELSE IF e.kind = "object" /\ TruthyString(e.message) THEN e.message
  ELSE IF e.kind = "object" /\ TruthyStatus(e.status) THEN HttpErrorMessage(e.status)
  ELSE IF e.isError THEN e.message
  ELSE "Unknown error"

InitError ==
  /\ StreamAtRest
  /\ messages = <<>>
  /\ loading = FALSE
  /\ chatStreamRef = 0
  /\ sessions = <<>>
  /\ actor = 0
  /\ error \in Errors
  /\ returned = "pending"
  /\ aborting = FALSE
  /\ abortRequests = <<>>
  /\ HistoryAtRest

CallGetErrorMessage ==
  /\ returned = "pending"
  /\ returned' = getErrorMessage(error)
  /\ UNCHANGED <<Stream, messages, loading, chatStreamRef, sessions, actor, error,
                 aborting, abortRequests, history, requests, store>>

NextError == CallGetErrorMessage

SpecError == InitError /\ [][NextError]_vars

----------------------------------------------------------------------------
(* DevicePanel: handleSend, handleAbortChat and handleReset around the     *)
(* sessions they start.  Every handleSend call has its own locals; the     *)
(* message list, the loading flag and chatStreamRef belong to the panel.   *)
(* A session gets its response body in whole reads.                        *)

\* the first read of a response body: a thinking chunk or a done frame
PanelFirst ==
  {WireText(<<LineEvThinking, DataLine(JsonChunkHe)>>), WireText(FrameDone)}

\* the second read: a thinking chunk, or a step without or with its own thinking
PanelSecond ==
  {WireText(<<LineEvThinking, DataLine(JsonChunkHe)>>),
   WireText(<<LineEvStep, DataLine(JsonEmpty)>>),
   WireText(<<LineEvStep, DataLine(JsonStepT)>>)}

PanelScripts == {<<a, b>> : a \in PanelFirst, b \in PanelSecond}

\* the locals of one handleSend call and of the sendMessageStream call it makes
Locals(r) ==
  [buffer |-> r.buffer, eventType |-> r.eventType,
   thinkingChunksBuffer |-> r.thinkingChunksBuffer,
   currentThinkingText |-> r.currentThinkingText,
   updateTimeoutId |-> r.updateTimeoutId, timerPending |-> r.timerPending,
   thinkingList |-> r.thinkingList, actionsList |-> r.actionsList,
   calls |-> r.calls, observed |-> r.observed]

NewSession(script) ==
  [pc |-> "fetching", aborted |-> FALSE, script |-> script, next |-> 1,
   loc |-> Locals(Start)]

\* locals hoisted out of handleSend: every session uses those of the latest call
LocalsIndex_Latest(i) == Len(sessions)

\* the closures of session i capture the locals of its own handleSend call
LocalsIndex(i) == i

\* what a callback of session i reads and writes
SessionCur(i) ==
  LET r == sessions[LocalsIndex(i)].loc
  IN  [buffer |-> r.buffer, eventType |-> r.eventType,
       thinkingChunksBuffer |-> r.thinkingChunksBuffer,
       currentThinkingText |-> r.currentThinkingText,
       updateTimeoutId |-> r.updateTimeoutId, timerPending |-> r.timerPending,
       thinkingList |-> r.thinkingList, actionsList |-> r.actionsList,
       calls |-> r.calls, observed |-> r.observed,
       messages |-> messages, loading |-> loading,
       chatStreamRef |-> chatStreamRef, agentMessageId |-> i, thrown |-> FALSE]

SessionBecomes(i, st, stage, step) ==
  /\ sessions' =
       [k \in DOMAIN sessions |->
          [(IF k = i THEN [sessions[k] EXCEPT !.pc = stage, !.next = @ + step]
            ELSE sessions[k])
           EXCEPT !.loc = IF k = LocalsIndex(i) THEN Locals(st) ELSE @]]
  /\ messages' = st.messages
  /\ loading' = st.loading
  /\ chatStreamRef' = st.chatStreamRef
  /\ actor' = i
  /\ UNCHANGED <<aborting, abortRequests>>

\* abort() rejects the pending fetch or read; the rejection and .catch run
\* in the microtask checkpoint of the same task, before any other event
Rejecting ==
  \E i \in DOMAIN sessions :
    sessions[i].aborted /\ sessions[i].pc \in {"fetching", "reading"}

InitPanel ==
  /\ StreamAtRest
  /\ messages = <<>>
  /\ loading = FALSE
  /\ chatStreamRef = 0
  /\ sessions = <<>>
  /\ actor = 0
  /\ error = NoError
  /\ returned = "pending"
  /\ aborting = FALSE
  /\ abortRequests = <<>>
  /\ HistoryAtRest

Aside == <<Stream, error, returned, history, requests, store>>

\* a call whose promise chain has settled and whose timeout is not pending
\* runs no more code: its locals are unreachable and are dropped
Settled(r) == r.pc \in {"ended", "caught", "settled"} /\ ~r.loc.timerPending

Collected(ss) ==
  [k \in DOMAIN ss |->
     IF Settled(ss[k])
     THEN [NewSession(<<>>) EXCEPT !.pc = "settled"]
     ELSE ss[k]]

\* the ids are Date.now() of the call for the user message and one more for
\* the assistant message: the n-th call has the ids -n and n
UserMessageId(n) == 0 - n

\* handleSend with a non-empty input
HandleSend ==
  /\ ~Rejecting
  /\ ~loading
  /\ Len(sessions) < MaxSessions
  /\ \E script \in PanelScripts :
       sessions' = Append(Collected(sessions), NewSession(script))
  /\ messages' = messages \o <<UserMessage(UserMessageId(Len(sessions) + 1)),
                              AgentMessage(Len(sessions) + 1)>>
  /\ loading' = TRUE
  /\ chatStreamRef' = Len(sessions) + 1
  /\ actor' = 0
  /\ UNCHANGED <<aborting, abortRequests, Aside>>

\* handle.close() of session i
Closed(ss, i) == [ss EXCEPT ![i].aborted = TRUE]

\* the updater of handleAbortChat: the last message, when it is streaming
AbortedMessages(ms) ==
  IF ms # <<>> /\ ms[Len(ms)].role = "assistant" /\ ms[Len(ms)].isStreaming
  THEN [ms EXCEPT ![Len(ms)].isStreaming = FALSE,
                  ![Len(ms)].currentThinking = Undefined]
  ELSE ms

\* what handleAbortChat reads and writes
Panel ==
  [sessions |-> sessions, chatStreamRef |-> chatStreamRef,
   messages |-> messages, loading |-> loading, aborting |-> aborting,
   abortRequests |-> abortRequests]

\* if (chatStreamRef.current) { chatStreamRef.current.close();
\*                              chatStreamRef.current = null; }
CloseConnection(p) ==
  IF p.chatStreamRef # 0
  THEN [p EXCEPT !.sessions = Closed(@, p.chatStreamRef), !.chatStreamRef = 0]
  ELSE p

\* setMessages(prev => ...)
UpdateUi(p) == [p EXCEPT !.messages = AbortedMessages(@)]

\* abortChat(deviceId).catch(...): the request leaves, nobody waits for the
\* answer; the request is noted with the handle the panel holds as it leaves
NotifyBackend(p) ==
  [p EXCEPT !.abortRequests = Append(@, [handle |-> p.chatStreamRef])]

\* finally { setLoading(false); setAborting(false); }
Finally(p) == [p EXCEPT !.loading = FALSE, !.aborting = FALSE]

\* a handler that tells the backend before it closes its own stream
AbortChat_NotifiesFirst(p) ==
  Finally(UpdateUi(CloseConnection(NotifyBackend([p EXCEPT !.aborting = TRUE]))))

\* the body of handleAbortChat after its early return
AbortChat(p) ==
  Finally(NotifyBackend(UpdateUi(CloseConnection([p EXCEPT !.aborting = TRUE]))))

PanelBecomes(p) ==
  /\ sessions' = p.sessions
  /\ chatStreamRef' = p.chatStreamRef
  /\ messages' = p.messages
  /\ loading' = p.loading
  /\ aborting' = p.aborting
  /\ abortRequests' = p.abortRequests

\* if (!chatStreamRef.current) return;
HandleAbortChat ==
  /\ ~Rejecting
  /\ IF chatStreamRef = 0
     THEN UNCHANGED <<sessions, chatStreamRef, messages, loading, aborting,
                      abortRequests, actor>>
     ELSE PanelBecomes(AbortChat(Panel)) /\ actor' = 0
  /\ UNCHANGED Aside

\* the backend answers an abortChat request; nothing reads the answer
AbortChatOk ==
  /\ ~Rejecting
  /\ abortRequests # <<>>
  /\ abortRequests' = Tail(abortRequests)
  /\ actor' = 0
  /\ UNCHANGED <<sessions, chatStreamRef, messages, loading, aborting, Aside>>

\* the request fails: .catch(e => console.error('Backend abort failed:', e))
AbortChatFail ==
  /\ ~Rejecting
  /\ abortRequests # <<>>
  /\ abortRequests' = Tail(abortRequests)
  /\ actor' = 0
  /\ UNCHANGED <<sessions, chatStreamRef, messages, loading, aborting, Aside>>

HandleReset ==
  /\ ~Rejecting
  /\ sessions' = IF chatStreamRef # 0 THEN Closed(sessions, chatStreamRef) ELSE sessions
  /\ messages' = <<>>
  /\ loading' = FALSE
  /\ chatStreamRef' = 0
  /\ actor' = 0
  /\ UNCHANGED <<aborting, abortRequests, Aside>>

\* fetch of session i resolves with response.ok and a body
SessionResponseOk(i) ==
  /\ ~Rejecting
  /\ sessions[i].pc = "fetching"
  /\ SessionBecomes(i, SessionCur(i), "reading", 0)
  /\ UNCHANGED Aside

\* reader.read() of session i resolves with the next chunk
SessionRead(i) ==
  /\ ~Rejecting
  /\ sessions[i].pc = "reading"
  /\ sessions[i].next <= Len(sessions[i].script)
  /\ SessionBecomes(i, ProcessChunk(SessionCur(i),
                                    sessions[i].script[sessions[i].next], TRUE),
                    "reading", 1)
  /\ UNCHANGED Aside

\* reader.read() of session i resolves with done
SessionReadEnd(i) ==
  /\ ~Rejecting
  /\ sessions[i].pc = "reading"
  /\ sessions[i].next > Len(sessions[i].script)
  /\ SessionBecomes(i, SessionCur(i), "ended", 0)
  /\ UNCHANGED Aside

\* reader.read() of session i rejects for a reason other than abort
SessionReadFail(i) ==
  /\ ~Rejecting
  /\ sessions[i].pc = "reading"
  /\ SessionBecomes(i, Catch(SessionCur(i), "TypeError", "network error", TRUE),
                    "caught", 0)
  /\ UNCHANGED Aside

\* fetch or reader.read() of session i rejects with AbortError
SessionAbortReject(i) ==
  /\ sessions[i].aborted
  /\ sessions[i].pc \in {"fetching", "reading"}
  /\ SessionBecomes(i, Catch(SessionCur(i), "AbortError",
                             "The user aborted a request.", TRUE),
                    "caught", 0)
  /\ UNCHANGED Aside

\* the 50 ms timeout of session i expires
SessionTimerFire(i) ==
  /\ ~Rejecting
  /\ sessions[i].loc.timerPending
  /\ SessionBecomes(i, [flushThinkingUpdate(SessionCur(i)) EXCEPT
                          !.timerPending = FALSE],
                    sessions[i].pc, 0)
  /\ UNCHANGED Aside

NextPanel ==
  \/ HandleSend
  \/ HandleAbortChat
  \/ HandleReset
  \/ \E i \in DOMAIN sessions : SessionResponseOk(i)
  \/ \E i \in DOMAIN sessions : SessionRead(i)
  \/ \E i \in DOMAIN sessions : SessionReadEnd(i)
  \/ \E i \in DOMAIN sessions : SessionReadFail(i)
  \/ \E i \in DOMAIN sessions : SessionAbortReject(i)
  \/ \E i \in DOMAIN sessions : SessionTimerFire(i)

SpecPanel == InitPanel /\ [][NextPanel]_vars

\* the panel together with the backend's answers to abortChat, which no
\* code of the panel reads
NextAbortChat ==
  \/ NextPanel
  \/ AbortChatOk
  \/ AbortChatFail

SpecAbortChat == InitPanel /\ [][NextAbortChat]_vars

----------------------------------------------------------------------------
(* HistoryComponent (routes/history.tsx): the records of the selected      *)
(* device, loaded page by page.  Every call of loadHistory, handleDelete   *)
(* and handleClearAll awaits the backend; the answers come in any order.   *)

\* const limit (20 in the source), the page size
limit == 2

\* records the backend holds for a device at the start
MaxRecords == 3

\* calls awaiting their answer at the same time
MaxRequests == 2

\* getDevices(): the devices, in the order of the list
Devices == <<"A", "B">>

DeviceSet == {Devices[i] : i \in DOMAIN Devices}

\* backend: the records of each device, newest first; the first device has
\* more than a page of them, the others one
StoreStart ==
  [d \in DeviceSet |->
     [n \in 1..(IF d = Devices[1] THEN MaxRecords ELSE 1) |-> <<d, n>>]]

Smaller(a, b) == IF a < b THEN a ELSE b

\* backend, GET /api/history/{serialno}?limit=&offset=
ListHistory(serial, lim, off) ==
  [records |-> SubSeq(store[serial], off + 1,
                      Smaller(off + lim, Len(store[serial]))),
   total |-> Len(store[serial])]

Without(seq, i) == SubSeq(seq, 1, i - 1) \o SubSeq(seq, i + 1, Len(seq))

ListedIds == {history.records[k] : k \in DOMAIN history.records}

InitHistory ==
  /\ StreamAtRest
  /\ messages = <<>>
  /\ loading = FALSE
  /\ chatStreamRef = 0
  /\ sessions = <<>>
  /\ actor = 0
  /\ error = NoError
  /\ returned = "pending"
  /\ aborting = FALSE
  /\ abortRequests = <<>>
  /\ history = HistoryStart
  /\ requests = <<>>
  /\ store = StoreStart

Outside ==
  <<Stream, messages, loading, chatStreamRef, sessions, actor, error, returned,
    aborting, abortRequests>>

\* loadHistory(serial, reset) up to its await
LoadHistory(h, serial, reset) ==
  /\ history' = IF reset THEN [h EXCEPT !.loading = TRUE, !.offset = 0]
                 ELSE [h EXCEPT !.loadingMore = TRUE]
  /\ requests' = Append(requests,
                        [kind |-> "list", serial |-> serial, reset |-> reset,
                         newOffset |-> IF reset THEN 0 ELSE h.offset,
                         id |-> <<>>])

\* getDevices() resolves: the first device is selected, and the effect on
\* selectedSerial loads its history
LoadDevices ==
  /\ history.selectedSerial = ""
  /\ LoadHistory([history EXCEPT !.selectedSerial = Devices[1]], Devices[1], TRUE)
  /\ UNCHANGED <<store, Outside>>

\* the user picks another device in the Select
SelectDevice(d) ==
  /\ history.selectedSerial # ""
  /\ d # history.selectedSerial
  /\ Len(requests) < MaxRequests
  /\ LoadHistory([history EXCEPT !.selectedSerial = d], d, TRUE)
  /\ UNCHANGED <<store, Outside>>

\* the Load more button: shown below the list, disabled while loadingMore
HandleLoadMore ==
  /\ ~history.loading
  /\ ~history.loadingMore
  /\ history.selectedSerial # ""
  /\ Len(history.records) < history.total
  /\ Len(requests) < MaxRequests
  /\ LoadHistory(history, history.selectedSerial, FALSE)
  /\ UNCHANGED <<store, Outside>>

\* listHistory resolves: the rest of the try block and finally
ListResolve(i) ==
  /\ requests[i].kind = "list"
  /\ \A data \in {ListHistory(requests[i].serial, limit, requests[i].newOffset)} :
       history' = [history EXCEPT
                     !.records = IF requests[i].reset THEN data.records
                                 ELSE @ \o data.records,
                     !.total = data.total,
                     !.offset = requests[i].newOffset + Len(data.records),
                     !.loading = FALSE,
                     !.loadingMore = FALSE]
  /\ requests' = Without(requests, i)
  /\ UNCHANGED <<store, Outside>>

\* listHistory rejects: catch logs, finally runs
ListReject(i) ==
  /\ requests[i].kind = "list"
  /\ history' = [history EXCEPT !.loading = FALSE, !.loadingMore = FALSE]
  /\ requests' = Without(requests, i)
  /\ UNCHANGED <<store, Outside>>

\* the user confirms the deletion of a listed record
HandleDelete(id) ==
  /\ ~history.loading
  /\ history.selectedSerial # ""
  /\ id \in ListedIds
  /\ Len(requests) < MaxRequests
  /\ requests' = Append(requests,
                        [kind |-> "delete", serial |-> history.selectedSerial,
                         reset |-> FALSE, newOffset |-> 0, id |-> id])
  /\ UNCHANGED <<history, store, Outside>>

KeepOthers(seq, id) == SelectSeq(seq, LAMBDA r : r # id)

\* deleteHistoryRecord resolves
DeleteResolve(i) ==
  /\ requests[i].kind = "delete"
  /\ \E k \in DOMAIN store[requests[i].serial] :
       store[requests[i].serial][k] = requests[i].id
  /\ store' = [store EXCEPT ![requests[i].serial] = KeepOthers(@, requests[i].id)]
  /\ history' = [history EXCEPT !.records = KeepOthers(@, requests[i].id),
                                !.total = @ - 1]
  /\ requests' = Without(requests, i)
  /\ UNCHANGED Outside

\* deleteHistoryRecord rejects: catch logs
DeleteReject(i) ==
  /\ requests[i].kind = "delete"
  /\ requests' = Without(requests, i)
  /\ UNCHANGED <<history, store, Outside>>

\* the user confirms Clear all, offered while records are listed
HandleClearAll ==
  /\ history.selectedSerial # ""
  /\ history.records # <<>>
  /\ Len(requests) < MaxRequests
  /\ requests' = Append(requests,
                        [kind |-> "clear", serial |-> history.selectedSerial,
                         reset |-> FALSE, newOffset |-> 0, id |-> <<>>])
  /\ UNCHANGED <<history, store, Outside>>

\* clearHistory resolves
ClearResolve(i) ==
  /\ requests[i].kind = "clear"
  /\ store' = [store EXCEPT ![requests[i].serial] = <<>>]
  /\ history' = [history EXCEPT !.records = <<>>, !.total = 0, !.offset = 0]
  /\ requests' = Without(requests, i)
  /\ UNCHANGED Outside

\* clearHistory rejects: catch logs
ClearReject(i) ==
  /\ requests[i].kind = "clear"
  /\ requests' = Without(requests, i)
  /\ UNCHANGED <<history, store, Outside>>

NextHistory ==
  \/ LoadDevices
  \/ \E d \in DeviceSet : SelectDevice(d)
  \/ HandleLoadMore
  \/ \E i \in DOMAIN requests : ListResolve(i)
  \/ \E i \in DOMAIN requests : ListReject(i)
  \/ \E id \in ListedIds : HandleDelete(id)
  \/ \E i \in DOMAIN requests : DeleteResolve(i)
  \/ \E i \in DOMAIN requests : DeleteReject(i)
  \/ HandleClearAll
  \/ \E i \in DOMAIN requests : ClearResolve(i)
  \/ \E i \in DOMAIN requests : ClearReject(i)

SpecHistory == InitHistory /\ [][NextHistory]_vars

\* the page while the first device stays selected
NextPaging ==
  \/ LoadDevices
  \/ HandleLoadMore
  \/ \E i \in DOMAIN requests : ListResolve(i)
  \/ \E i \in DOMAIN requests : ListReject(i)
  \/ \E id \in ListedIds : HandleDelete(id)
  \/ \E i \in DOMAIN requests : DeleteResolve(i)
  \/ \E i \in DOMAIN requests : DeleteReject(i)
  \/ HandleClearAll
  \/ \E i \in DOMAIN requests : ClearResolve(i)
  \/ \E i \in DOMAIN requests : ClearReject(i)

SpecPaging == InitHistory /\ [][NextPaging]_vars

----------------------------------------------------------------------------
(* Vocabulary of the properties.                                           *)

IsTerminal(c) == c.cb \in {"done", "error", "aborted"}

TerminalCalls == {i \in 1..Len(calls) : IsTerminal(calls[i])}

IsThinkingCall(c) == c.cb = "thinking_chunk"
IsThinkingUpdate(u) == u.kind = "thinking"
IsEventUpdate(u) == u.kind # "thinking"

\* raw chunk values handed to onThinkingChunk, in order
ReceivedChunks == [i \in 1..Len(SelectSeq(calls, IsThinkingCall)) |->
                     SelectSeq(calls, IsThinkingCall)[i].event.chunk]
Received == Join(ReceivedChunks)

\* thinking text handed to setMessages by flushes, in order
DeliveredTexts == [i \in 1..Len(SelectSeq(observed, IsThinkingUpdate)) |->
                     SelectSeq(observed, IsThinkingUpdate)[i].text]
Delivered == Join(DeliveredTexts)

\* the callbacks a single read of the characters t would invoke
OneRead(t) == ProcessChunk(Start, t, hasOnAborted)

Streaming == pc \in {"reading", "ended"}

LocalAbort(c) == c.cb = "aborted" /\ c.src = "catch"

----------------------------------------------------------------------------
\* C1: a session invokes at most one terminal callback (onDone, onError or
\* onAborted), whatever frames, transport outcomes and close() calls occur.
C1_AtMostOneTerminal == Cardinality(TerminalCalls) <= 1

\* C2: once a terminal callback has been invoked no further callback is
\* invoked: a terminal call is the last call.
C2_NothingAfterTerminal ==
  \A i \in 1..Len(calls) : IsTerminal(calls[i]) => i = Len(calls)

\* C3: once the transport has ended normally, failed or been cancelled, a
\* terminal callback has been invoked.
C3_TerminalWhenSettled ==
  pc \in {"ended", "caught"} => TerminalCalls # {}

----------------------------------------------------------------------------
----------------------------------------------------------------------------
----------------------------------------------------------------------------
\* C6: the callbacks invoked, the pending line and the current event name
\* after the reads so far are those of one read of the same characters.
C6_CutIndependent ==
  Streaming =>
    /\ calls = OneRead(SubSeq(text, 1, pos)).calls
    /\ buffer = OneRead(SubSeq(text, 1, pos)).buffer
    /\ eventType = OneRead(SubSeq(text, 1, pos)).eventType

C6_Witness ==
  /\ pc = "ended"
  /\ cutInLine
  /\ Len(calls) = 2
  /\ calls[2].cb = "done"

----------------------------------------------------------------------------
\* C7: a data: line that is not JSON invokes no callback and leaves the
\* event name untouched: at every line boundary the calls and the event
\* name are those of the same text without its malformed data: lines.

IsMalformed(line) == StartsWith(line, DataPrefix) /\ ~IsJson(Slice(line, 6))
IsWellFormed(line) == ~IsMalformed(line)

\* the complete lines of t, t ending at a line boundary
CompleteLines(t) == SubSeq(Split(t), 1, Len(Split(t)) - 1)

WithoutMalformed(t) == WireText(SelectSeq(CompleteLines(t), IsWellFormed))

C7_MalformedIsSkipped ==
  (Streaming /\ buffer = <<>>) =>
    /\ calls = OneRead(WithoutMalformed(SubSeq(text, 1, pos))).calls
    /\ eventType = OneRead(WithoutMalformed(SubSeq(text, 1, pos))).eventType

C7_Witness ==
  /\ pc = "ended"
  /\ text = WireText(<<LineEvDone, DataLine(JsonBad), DataLine(JsonMsgOk)>>)
  /\ Len(calls) = 1 /\ calls[1].cb = "done"

----------------------------------------------------------------------------
\* C8: close() before any callback, while the request is pending or the
\* stream is being read, leads to exactly one callback, the local Aborted.
C8_EarlyCloseOnlyAborts ==
  (closeAt = 0 /\ closePc \in {"fetching", "reading"}) =>
    /\ pc \in {closePc, "caught"}
    /\ pc = closePc => calls = <<>> /\ observed = <<>>
    /\ pc = "caught" =>
         /\ Len(calls) = 1 /\ LocalAbort(calls[1])
         /\ calls[1].event.message = AbortedByUser
         /\ Len(observed) = 1 /\ observed[1].kind = "aborted"

C8_Witness ==
  /\ closeAt = 0 /\ closePc = "reading" /\ pos > 0
  /\ pc = "caught"
  /\ Len(calls) = 1 /\ LocalAbort(calls[1])

----------------------------------------------------------------------------
\* C9: step and terminal events reach the consumer in the order of their
\* data: lines, and no thinking update is delivered after a step or
\* terminal event that came after the chunks the update contains.

EventKinds == [i \in 1..Len(SelectSeq(observed, IsEventUpdate)) |->
                 SelectSeq(observed, IsEventUpdate)[i].kind]
NotThinkingCall(c) == ~IsThinkingCall(c)
EventCalls == [i \in 1..Len(SelectSeq(calls, NotThinkingCall)) |->
                 SelectSeq(calls, NotThinkingCall)[i].cb]

C9_ThinkingBeforeLaterEvents ==
  /\ EventKinds = EventCalls
  /\ \A i \in 1..Len(observed) : \A j \in (i + 1)..Len(observed) :
       (IsEventUpdate(observed[i]) /\ observed[i].pending # <<>>) =>
         ~IsThinkingUpdate(observed[j])

----------------------------------------------------------------------------
\* C10: of a server terminal frame and a local cancellation only the first
\* dispatched is delivered.
C10_FirstTerminalWins ==
  \A i \in 1..Len(calls) : \A j \in (i + 1)..Len(calls) :
    /\ ~(IsTerminal(calls[i]) /\ calls[i].src = "frame" /\ LocalAbort(calls[j]))
    /\ ~(LocalAbort(calls[i]) /\ IsTerminal(calls[j]) /\ calls[j].src = "frame")

----------------------------------------------------------------------------
\* C11: a cancellation is never reported as an Error: after a close() that
\* came before any terminal callback, .catch does not invoke onError.

CatchError(c) == c.cb = "error" /\ c.src = "catch"

ClosedBeforeTerminal ==
  closeAt >= 0 /\ \A i \in 1..closeAt : i <= Len(calls) => ~IsTerminal(calls[i])

C11_CancelIsNeverError ==
  ClosedBeforeTerminal =>
    \A j \in (closeAt + 1)..Len(calls) : ~CatchError(calls[j])

----------------------------------------------------------------------------
\* C12: close() is idempotent: a repeated close() changes nothing, and a
\* cancellation that reaches .catch invokes onAborted with "Connection
\* aborted by user" exactly once, however often close() was called.

LocalAborts == {i \in 1..Len(calls) : LocalAbort(calls[i])}

AllButCloses ==
  <<pc, aborted, hasOnAborted, text, pos, errBody, buffer, eventType,
    thinkingChunksBuffer, currentThinkingText, updateTimeoutId, timerPending,
    thinkingList, actionsList, messages, loading, chatStreamRef, calls,
    observed, closeAt, closePc, readLimit, cutInLine, httpStatus, settledBy,
    closeBudget, reentrant, sessions, actor, error, returned, aborting,
    abortRequests, history, requests, store>>

----------------------------------------------------------------------------
\* C13 as stated: once close() has been called no thinking-chunk, step or
\* done callback is invoked, also when close() is called from a callback.
C13_NoCallbackAfterClose ==
  closeAt >= 0 =>
    \A j \in (closeAt + 1)..Len(calls) :
      calls[j].cb \notin {"thinking_chunk", "step", "done"}

\* C13 as amended: once close() has been called no further read is
\* processed; the only callback invoked in a later turn is the one of
\* .catch.  The frames of the chunk being processed when a callback calls
\* close() are still dispatched.
C13_NoReadAfterClose ==
  [][aborted =>
       /\ pos' = pos
       /\ \/ calls' = calls
          \/ /\ Len(calls') = Len(calls) + 1
             /\ SubSeq(calls', 1, Len(calls)) = calls
             /\ calls'[Len(calls')].src = "catch"]_vars

C13_Witness ==
  /\ closePc = "callback"
  /\ settledBy = "abort"
  /\ \E j \in (closeAt + 1)..Len(calls) : calls[j].cb = "done"

----------------------------------------------------------------------------
\* C14: a non-OK response leads to exactly one callback, an Error whose
\* message is the string detail of a JSON body and otherwise
\* "HTTP error! status: <code>".
C14_NonOkIsOneError ==
  settledBy = "http" =>
    /\ Len(calls) = 1 /\ CatchError(calls[1])
    /\ Len(observed) = 1 /\ observed[1].kind = "error"
    /\ calls[1].event.message =
         IF errBody = "detail" THEN "agent busy" ELSE HttpErrorMessage(httpStatus)

----------------------------------------------------------------------------
\* C15: a transport failure in the middle of the stream adds exactly one
\* callback, an Error with the failure's message, after the events
\* already dispatched, and that Error stays the last event.

TransportError ==
  [cb |-> "error", event |-> LocalError("network error"),
   src |-> "catch"]

C15_ReadFailureIsOneError ==
  /\ [][(settledBy # "readFail" /\ settledBy' = "readFail") =>
          /\ pc = "reading"
          /\ calls' = Append(calls, TransportError)
          /\ Len(observed') = Len(observed) + 1
          /\ SubSeq(observed', 1, Len(observed)) = observed
          /\ observed'[Len(observed')].kind = "error"]_vars
  /\ [](settledBy = "readFail" =>
          /\ pc = "caught"
          /\ calls # <<>> /\ calls[Len(calls)] = TransportError
          /\ observed # <<>> /\ observed[Len(observed)].kind = "error"
          /\ ~timerPending)

C15_Witness ==
  /\ settledBy = "readFail"
  /\ Len(calls) = 3
  /\ calls[1].cb = "thinking_chunk" /\ calls[2].cb = "thinking_chunk"

----------------------------------------------------------------------------
\* C16: every data: line is dispatched under the name of the most recent
\* event: line before it in the stream, or "message" when there is none.

\* the greatest element of a non-empty set of numbers
Greatest(S) == CHOOSE m \in S : \A k \in S : k <= m

EventLinesBefore(lines, i) ==
  {j \in 1..(i - 1) : StartsWith(lines[j], EventPrefix)}

EventNameAt(lines, i) ==
  IF EventLinesBefore(lines, i) = {} THEN MessageType
  ELSE Trim(Slice(lines[Greatest(EventLinesBefore(lines, i))], 7))

CallbackOf(name) ==
  CASE name = ThinkingChunkType -> "thinking_chunk"
    [] name = StepType -> "step"
    [] name = DoneType -> "done"
    [] name = AbortedType -> IF hasOnAborted THEN "aborted" ELSE "none"
    [] name = ErrorType -> "error"
    [] OTHER -> "none"

IsDataLine(line) == StartsWith(line, DataPrefix)

Indices(lines) == [i \in 1..Len(lines) |-> i]

\* the calls the claim expects for these complete lines
ExpectedCalls(lines) ==
  LET Dispatched(i) == /\ IsDataLine(lines[i])
                       /\ IsJson(Slice(lines[i], 6))
                       /\ CallbackOf(EventNameAt(lines, i)) # "none"
      at == SelectSeq(Indices(lines), Dispatched)
  IN  [n \in 1..Len(at) |->
         [cb |-> CallbackOf(EventNameAt(lines, at[n])),
          event |-> JsonParse(Slice(lines[at[n]], 6)),
          src |-> "frame"]]

LinesRead == CompleteLines(SubSeq(text, 1, pos))

C16_NameOfLatestEventLine ==
  Streaming =>
    /\ calls = ExpectedCalls(LinesRead)
    /\ eventType = EventNameAt(LinesRead, Len(LinesRead) + 1)

C16_Witness ==
  /\ pc = "ended"
  /\ cutInLine
  /\ text = WireText(<<LineEvDone, DataLine(JsonMsgOk), DataLine(JsonMsgOk)>>)
  /\ Len(calls) = 2

----------------------------------------------------------------------------
\* C17: a data: line under an event name the code does not know ("message"
\* included) invokes no callback and changes nothing for later lines: calls
\* and event name are those of the text without these lines.

Kept(lines, Keep(_)) ==
  [n \in 1..Len(SelectSeq(Indices(lines), Keep)) |->
     lines[SelectSeq(Indices(lines), Keep)[n]]]

WithoutUnknownData(lines) ==
  LET Keep(i) == ~(IsDataLine(lines[i])
                   /\ CallbackOf(EventNameAt(lines, i)) = "none")
  IN  Kept(lines, Keep)

C17_UnknownNameIsIgnored ==
  Streaming =>
    /\ calls = OneRead(WireText(WithoutUnknownData(LinesRead))).calls
    /\ buffer = <<>> =>
         eventType = OneRead(WireText(WithoutUnknownData(LinesRead))).eventType

C17_Witness ==
  /\ pc = "ended"
  /\ text = WireText(<<DataLine(JsonEmpty), LineEvDone, DataLine(JsonEmpty)>>)
  /\ Len(calls) = 1 /\ calls[1].cb = "done"

----------------------------------------------------------------------------
\* C18: a complete line that is neither an event: nor a data: line invokes
\* no callback and leaves the event name: calls and event name are those of
\* the text without these lines.

WithoutOtherLines(lines) ==
  LET Keep(i) == StartsWith(lines[i], EventPrefix) \/ IsDataLine(lines[i])
  IN  Kept(lines, Keep)

C18_OtherLinesAreIgnored ==
  Streaming =>
    /\ calls = OneRead(WireText(WithoutOtherLines(LinesRead))).calls
    /\ buffer = <<>> =>
         eventType = OneRead(WireText(WithoutOtherLines(LinesRead))).eventType

C18_Witness ==
  /\ pc = "ended"
  /\ text = WireText(<<LineEvDone, LineBlank, DataLine(JsonEmpty)>>)
  /\ Len(calls) = 1 /\ calls[1].cb = "done"

----------------------------------------------------------------------------
\* C19: only complete lines are decoded: the pending buffer is the text
\* received after the last newline, the calls are those of the complete
\* lines, and a last line without newline is never decoded.

Newlines(t) == {i \in 1..Len(t) : t[i] = NL}

AfterLastNewline(t) ==
  IF Newlines(t) = {} THEN t ELSE SubSeq(t, Greatest(Newlines(t)) + 1, Len(t))

C19_OnlyCompleteLines ==
  Streaming =>
    /\ buffer = AfterLastNewline(SubSeq(text, 1, pos))
    /\ Newlines(buffer) = {}
    /\ calls = ExpectedCalls(LinesRead)

C19_Witness ==
  /\ pc = "ended"
  /\ text = WireText(<<LineEvDone>>) \o DataLine(JsonEmpty)
  /\ buffer = DataLine(JsonEmpty)
  /\ calls = <<>>

----------------------------------------------------------------------------
\* C20: before any terminal callback the flush timer is armed exactly when
\* the buffer holds fragments, and a timer is only armed when none is
\* pending; an expiring timer emits one update with all buffered fragments
\* in arrival order and leaves the buffer empty and the handle null.
C20_ArmedIffBuffered ==
  /\ [](/\ updateTimeoutId = "null" => ~timerPending
        /\ (pc = "reading" /\ TerminalCalls = {}) =>
             /\ timerPending <=> thinkingChunksBuffer # <<>>
             /\ timerPending <=> updateTimeoutId = "timer")
  /\ [][(timerPending /\ ~timerPending' /\ calls' = calls) =>
          /\ observed' = Append(observed,
               [kind |-> "thinking", text |-> Join(thinkingChunksBuffer),
                armed |-> FALSE, pending |-> <<>>])
          /\ thinkingChunksBuffer' = <<>>
          /\ updateTimeoutId' = "null"]_vars

C20_Witness ==
  /\ pc = "reading"
  /\ TerminalCalls = {}
  /\ Len(observed) = 1 /\ observed[1].kind = "thinking"
  /\ timerPending
  /\ thinkingChunksBuffer # <<>>

----------------------------------------------------------------------------
\* C24: getErrorMessage returns, for an object, the first available of a
\* non-empty data.detail, a non-empty message and the HTTP status text, and
\* "Unknown error" for every other input.
FirstAvailable(e) ==
  IF e.kind = "object" /\ TruthyString(e.detail) THEN e.detail
  ELSE IF e.kind = "object" /\ TruthyString(e.message) THEN e.message
  ELSE IF e.kind = "object" /\ TruthyStatus(e.status) THEN HttpErrorMessage(e.status)
  ELSE "Unknown error"

C24_FirstAvailableMessage ==
  returned # "pending" => returned = FirstAvailable(error)

----------------------------------------------------------------------------
\* C29: once a terminal callback has written the final state of the
\* assistant message, the message keeps it: currentThinking stays undefined
\* and isStreaming stays false, whatever frames or timer ticks come later.
C29_FinalMessageStays ==
  TerminalCalls # {} =>
    \A k \in DOMAIN messages :
      /\ messages[k].currentThinking = Undefined
      /\ ~messages[k].isStreaming

----------------------------------------------------------------------------
\* C30: the thinking list and the action list of the panel have the same
\* length, in the callbacks' locals and in the message that is rendered, so
\* that entry i of both belongs to the same step.
C30_ListsSameLength ==
  /\ Len(thinkingList) = Len(actionsList)
  /\ \A k \in DOMAIN messages :
       Len(messages[k].thinking) = Len(messages[k].actions)

----------------------------------------------------------------------------
\* C25: cancellation is cooperative.  When a callback calls close() while a
\* chunk is processed, every complete line of the chunk is still decoded
\* and dispatched (the calls and the pending buffer are those the chunk
\* gives when nobody calls close()) and no Aborted event is dispatched in
\* that turn; the Aborted event comes last, from the rejection of the next
\* read.
C25_CancelAtNextRead ==
  /\ [][(closePc # "callback" /\ closePc' = "callback") =>
          /\ pc' = "reading"
          /\ pos' > pos
          /\ closeAt' \in (Len(calls) + 1)..Len(calls')
          /\ \A whole \in {ProcessChunk(Cur, SubSeq(text, pos + 1, pos'),
                                         hasOnAborted)} :
               calls' = whole.calls /\ buffer' = whole.buffer
          /\ \A j \in 1..Len(calls') : ~LocalAbort(calls'[j])]_vars
  /\ [](closePc = "callback" =>
          \A j \in 1..Len(calls) :
            LocalAbort(calls[j]) =>
              j = Len(calls) /\ pc = "caught" /\ settledBy = "abort")

C25_Witness ==
  /\ closePc = "callback"
  /\ pc = "reading"
  /\ closeAt < Len(calls)
  /\ calls[Len(calls)].cb = "step"

----------------------------------------------------------------------------
\* C23: every event handed to a callback has a type equal to the wire event
\* name under which it was dispatched.
C23_TypeIsEventName ==
  \A j \in 1..Len(calls) : calls[j].event.type = calls[j].cb

----------------------------------------------------------------------------
\* C27: a callback that throws while a frame is dispatched does not leave
\* the read loop: the session goes on reading, no call is made because of
\* the exception, and the calls are those of all complete lines received,
\* the lines after the throwing frame included.
ThrowingCalls == {j \in 1..Len(calls) : calls[j].event.null}

C27_ThrowStaysInLoop ==
  /\ [][(pc = "reading" /\ Cardinality(ThrowingCalls') > Cardinality(ThrowingCalls)) =>
          /\ pc' = "reading"
          /\ settledBy' = settledBy
          /\ \A j \in 1..Len(calls') : calls'[j].src = "frame"]_vars
  /\ []((Streaming /\ ThrowingCalls # {}) =>
          \A lines \in {LinesRead} : calls = ExpectedCalls(lines))

C27_Witness ==
  /\ pc = "reading"
  /\ Len(calls) = 2
  /\ calls[1].cb = "step" /\ calls[1].event.null
  /\ calls[2].cb = "done" /\ ~calls[2].event.null
  /\ ~cutInLine

----------------------------------------------------------------------------
\* C21: in a panel at most one session is active: whenever handleSend has
\* started a session, no session started before it can still invoke
\* callbacks.
CanCallBack(r) == r.pc \in {"fetching", "reading"} \/ r.loc.timerPending

ActiveSessions == {i \in DOMAIN sessions : CanCallBack(sessions[i])}

C21_OneActiveSession == Cardinality(ActiveSessions) <= 1

----------------------------------------------------------------------------
\* C22: the coalescer state is private to its session.  A stream event, a
\* timer tick or a terminal callback of one session leaves the locals of
\* every other session as they are, and what it does to its own lists and
\* text starts from its own: its calls, thinking list and action list are
\* extended, and a timer tick appends its own buffer to its own text.
IsPrefixOf(a, b) == Len(a) <= Len(b) /\ SubSeq(b, 1, Len(a)) = a

C22_LocalsArePrivate ==
  [][\A j \in DOMAIN sessions :
       (actor' = j /\ Len(sessions') = Len(sessions)) =>
         /\ \A i \in DOMAIN sessions : i # j => sessions'[i] = sessions[i]
         /\ IsPrefixOf(sessions[j].loc.calls, sessions'[j].loc.calls)
         /\ IsPrefixOf(sessions[j].loc.thinkingList, sessions'[j].loc.thinkingList)
         /\ IsPrefixOf(sessions[j].loc.actionsList, sessions'[j].loc.actionsList)
         /\ (/\ sessions'[j].loc.calls = sessions[j].loc.calls
             /\ sessions[j].loc.timerPending
             /\ ~sessions'[j].loc.timerPending) =>
              sessions'[j].loc.currentThinkingText =
                sessions[j].loc.currentThinkingText
                  \o Join(sessions[j].loc.thinkingChunksBuffer)]_vars

C22_Witness ==
  /\ Len(sessions) = 2
  /\ actor = 1
  /\ sessions[1].loc.thinkingChunksBuffer # <<>>
  /\ sessions[2].pc = "reading"
  /\ sessions[2].loc.currentThinkingText # <<>>

----------------------------------------------------------------------------
\* C26: a step records as its thinking the event's own thinking when that
\* is non-empty and otherwise the text streamed since the previous step,
\* and resets the accumulated text: the thinking list is the list of these
\* texts, and the text accumulated or buffered is what was streamed since
\* the last step.
RECURSIVE StepsOf(_, _, _)
StepsOf(cs, acc, list) ==
  IF cs = <<>> THEN [acc |-> acc, list |-> list]
  ELSE IF Head(cs).cb = "thinking_chunk"
  THEN StepsOf(Tail(cs), acc \o Join(<<Head(cs).event.chunk>>), list)
  ELSE IF Head(cs).cb = "step"
  THEN StepsOf(Tail(cs), <<>>,
               IF Head(cs).event.thinking \notin {Undefined, <<>>}
               THEN Append(list, Head(cs).event.thinking)
               ELSE IF acc # <<>> THEN Append(list, acc) ELSE list)
  ELSE StepsOf(Tail(cs), acc, list)

----------------------------------------------------------------------------
\* C28: while a session has neither dispatched a terminal event nor been
\* closed, chatStreamRef holds its handle and loading is true; no callback
\* of an earlier session clears them.
NoTerminalYet(r) ==
  \A j \in 1..Len(r.loc.calls) : ~IsTerminal(r.loc.calls[j])

C28_HandleHeldWhileRunning ==
  \A i \in DOMAIN sessions :
    (/\ sessions[i].pc # "settled"
     /\ ~sessions[i].aborted
     /\ NoTerminalYet(sessions[i])) =>
      chatStreamRef = i /\ loading

----------------------------------------------------------------------------
\* C31: when no onAborted callback was passed, a local cancellation and a
\* server-sent aborted frame invoke no callback at all: the only calls are
\* those of the other frames, and after close() .catch calls nothing, in
\* particular not onError.

FromFrame(c) == c.src = "frame"
FromCatch(c) == c.src = "catch"

C31_SilentWithoutOnAborted ==
  ~hasOnAborted =>
    /\ \A j \in 1..Len(calls) : calls[j].cb # "aborted"
    /\ \A lines \in {LinesRead} :
         SelectSeq(calls, FromFrame) = ExpectedCalls(lines)
    /\ ClosedBeforeTerminal =>
         \A j \in (closeAt + 1)..Len(calls) : ~FromCatch(calls[j])

----------------------------------------------------------------------------
\* C32: a callback or flush of a session replaces only the assistant message
\* with the id of that session: the list keeps its length and order, every
\* other message stays as it was, and a list emptied by handleReset stays
\* empty under the callbacks of the closed session.
C32_OwnMessageOnly ==
  [][actor' # 0 =>
       /\ Len(messages') = Len(messages)
       /\ \A k \in DOMAIN messages :
            /\ messages'[k].id = messages[k].id
            /\ messages[k].id # actor' => messages'[k] = messages[k]
       /\ messages = <<>> => messages' = <<>>]_vars

\* handleReset emptied the list, then onAborted of the closed session ran
C32_Witness ==
  /\ messages = <<>>
  /\ actor # 0
  /\ sessions[actor].aborted
  /\ sessions[actor].pc = "caught"
  /\ sessions[actor].loc.calls # <<>>
  /\ LocalAbort(sessions[actor].loc.calls[Len(sessions[actor].loc.calls)])

----------------------------------------------------------------------------
\* C33: handleAbortChat sends a backend abort request only when a stream
\* handle is held; by the time the request leaves, the stream is closed and
\* the handle cleared; of the messages only the last changes, and only when
\* it is an assistant message still streaming, which stops streaming; the
\* handler ends with loading = false and aborting = false, and the answer of
\* the backend, success or failure, changes none of this.

LastMessage(ms) == ms[Len(ms)]

StillStreaming(ms) ==
  ms # <<>> /\ LastMessage(ms).role = "assistant" /\ LastMessage(ms).isStreaming

C33_AbortChat ==
  /\ [](~aborting)
  /\ [][Len(abortRequests') > Len(abortRequests) =>
          /\ chatStreamRef # 0
          /\ sessions'[chatStreamRef].aborted
          /\ chatStreamRef' = 0
          /\ LastMessage(abortRequests').handle = 0
          /\ Len(messages') = Len(messages)
          /\ \A k \in 1..(Len(messages) - 1) : messages'[k] = messages[k]
          /\ IF StillStreaming(messages)
             THEN ~LastMessage(messages').isStreaming
             ELSE messages' = messages
          /\ loading' = FALSE]_vars
  /\ [][Len(abortRequests') < Len(abortRequests) =>
          UNCHANGED <<sessions, chatStreamRef, messages, loading, aborting>>]_vars

\* handleAbortChat has just run on a streaming session: its request is on
\* the way and the rejection of the closed stream has not been handled yet
C33_Witness ==
  /\ abortRequests # <<>>
  /\ Rejecting
  /\ chatStreamRef = 0
  /\ ~loading
  /\ messages # <<>>
  /\ LastMessage(messages).role = "assistant"
  /\ ~LastMessage(messages).isStreaming

----------------------------------------------------------------------------
\* C34: whenever Load more can be pressed, the offset the request will carry
\* equals the number of records listed.
C34_OffsetIsListedCount ==
  (/\ ~history.loading
   /\ ~history.loadingMore
   /\ history.selectedSerial # ""
   /\ Len(history.records) < history.total) =>
    history.offset = Len(history.records)

----------------------------------------------------------------------------
\* C35: when no call awaits an answer, every record listed is a record of
\* the selected device.
C35_ListedOfSelectedDevice ==
  requests = <<>> =>
    \A k \in DOMAIN history.records :
      history.records[k][1] = history.selectedSerial

====
